---- MODULE Spec2Model ----
(***************************************************************************)
(* Model of the budget pipeline of langchain_pipeline.py:                  *)
(* run_budget_pipeline fans the user input out to four completion chains   *)
(* (income, expenses, concerns, advice), joins them, recovers JSON from    *)
(* the income and expenses completions with extract_json and aggregates   *)
(* them with calculate_savings.                                            *)
(*                                                                         *)
(* A completion text is a sequence of tokens.  The six structural          *)
(* characters of JSON are tokens of their own, so the regular expression   *)
(* of extract_json, which only looks at braces and brackets, sees on the   *)
(* token sequence exactly what it sees on the characters (string literals  *)
(* holding a brace or a bracket are outside the alphabet).  Numbers are    *)
(* integers; whitespace between tokens is not represented.                 *)
(***************************************************************************)
EXTENDS Integers, Sequences, FiniteSets, TLC

VARIABLES user_input, pc, status, attempts, requests, content,
          income_data, expenses_data, outcome

vars == <<user_input, pc, status, attempts, requests, content,
          income_data, expenses_data, outcome>>

(***************************************************************************)
(* Tokens of a completion text.                                            *)
(***************************************************************************)
P(c) == [k |-> "p", s |-> c, n |-> 0]
S(str) == [k |-> "s", s |-> str, n |-> 0]
N(num) == [k |-> "n", s |-> "", n |-> num]
KwNull == [k |-> "kw", s |-> "null", n |-> 0]
W(word) == [k |-> "w", s |-> word, n |-> 0]

(***************************************************************************)
(* Python values produced by json.loads: int, str, None, list, dict.  A    *)
(* dict keeps its keys in insertion order (k) with their values (a).  x    *)
(* holds a completion text kept as a str (the raw_response of line 35).    *)
(***************************************************************************)
Num(i) == [t |-> "num", n |-> i, s |-> "", k |-> <<>>, a |-> <<>>, x |-> <<>>]
Str(str) == [t |-> "str", n |-> 0, s |-> str, k |-> <<>>, a |-> <<>>, x |-> <<>>]
None == [t |-> "null", n |-> 0, s |-> "", k |-> <<>>, a |-> <<>>, x |-> <<>>]
Arr(elems) == [t |-> "arr", n |-> 0, s |-> "", k |-> <<>>, a |-> elems, x |-> <<>>]
Obj(keys, vals) == [t |-> "obj", n |-> 0, s |-> "", k |-> keys, a |-> vals, x |-> <<>>]
RawText(text) == [t |-> "str", n |-> 0, s |-> "", k |-> <<>>, a |-> <<>>, x |-> text]

HasKey(o, key) == \E i \in 1..Len(o.k) : o.k[i] = key

KeyIndex(o, key) == CHOOSE i \in 1..Len(o.k) : o.k[i] = key

\* dict[key] = val while parsing: a repeated key keeps its place, the last value wins
ObjPut(keys, vals, key, val) ==
    IF \E i \in 1..Len(keys) : keys[i] = key
    THEN LET i == CHOOSE j \in 1..Len(keys) : keys[j] = key
         IN [ks |-> keys, vs |-> [vals EXCEPT ![i] = val]]
    ELSE [ks |-> Append(keys, key), vs |-> Append(vals, val)]

(***************************************************************************)
(* json.loads: one JSON value spanning the whole text, or JSONDecodeError. *)
(***************************************************************************)
ParseFail == [ok |-> FALSE, v |-> None, next |-> 0]

ParseOk(val, j) == [ok |-> TRUE, v |-> val, next |-> j]

RECURSIVE ParseValue(_, _), ParseElements(_, _, _), ParseMembers(_, _, _, _)

ParseValue(toks, i) ==
    IF i > Len(toks) THEN ParseFail
    ELSE LET tk == toks[i] IN
         CASE tk.k = "n" -> ParseOk(Num(tk.n), i + 1)
           [] tk.k = "s" -> ParseOk(Str(tk.s), i + 1)
           [] tk.k = "kw" -> ParseOk(None, i + 1)
           [] tk = P("[") ->
                IF i + 1 <= Len(toks) /\ toks[i + 1] = P("]")
                THEN ParseOk(Arr(<<>>), i + 2)
                ELSE ParseElements(toks, i + 1, <<>>)
           [] tk = P("{") ->
                IF i + 1 <= Len(toks) /\ toks[i + 1] = P("}")
                THEN ParseOk(Obj(<<>>, <<>>), i + 2)
                ELSE ParseMembers(toks, i + 1, <<>>, <<>>)
           [] OTHER -> ParseFail

ParseElements(toks, i, acc) ==
    LET r == ParseValue(toks, i) IN
    IF ~r.ok \/ r.next > Len(toks) THEN ParseFail
    ELSE IF toks[r.next] = P(",") THEN ParseElements(toks, r.next + 1, Append(acc, r.v))
    ELSE IF toks[r.next] = P("]") THEN ParseOk(Arr(Append(acc, r.v)), r.next + 1)
    ELSE ParseFail

ParseMembers(toks, i, keys, vals) ==
    IF i + 1 > Len(toks) \/ toks[i].k # "s" \/ toks[i + 1] # P(":") THEN ParseFail
    ELSE LET r == ParseValue(toks, i + 2) IN
         IF ~r.ok \/ r.next > Len(toks) THEN ParseFail
         ELSE LET put == ObjPut(keys, vals, toks[i].s, r.v) IN
              IF toks[r.next] = P(",") THEN ParseMembers(toks, r.next + 1, put.ks, put.vs)
              ELSE IF toks[r.next] = P("}") THEN ParseOk(Obj(put.ks, put.vs), r.next + 1)
              ELSE ParseFail

json_loads(text) ==
    LET r == ParseValue(text, 1) IN
    IF r.ok /\ r.next = Len(text) + 1 THEN [ok |-> TRUE, v |-> r.v]
    ELSE [ok |-> FALSE, v |-> None]

(***************************************************************************)
(* re.search(r"(\{.*\}|\[.*\])", text, re.DOTALL): the leftmost position   *)
(* where one of the alternatives matches; there, "{" up to the last "}"    *)
(* of the text, else "[" up to the last "]" of the text.                   *)
(***************************************************************************)
LastIndex(text, tok, from) ==
    LET later == {j \in (from + 1)..Len(text) : text[j] = tok} IN
    IF later = {} THEN 0 ELSE CHOOSE j \in later : \A l \in later : l <= j

SpanEnd(text, i) ==
    IF text[i] = P("{") THEN LastIndex(text, P("}"), i)
    ELSE IF text[i] = P("[") THEN LastIndex(text, P("]"), i)
    ELSE 0

re_search(text) ==
    LET starts == {i \in 1..Len(text) : SpanEnd(text, i) # 0} IN
    IF starts = {} THEN [found |-> FALSE, group |-> <<>>]
    ELSE LET i == CHOOSE j \in starts : \A l \in starts : j <= l
         IN [found |-> TRUE, group |-> SubSeq(text, i, SpanEnd(text, i))]

ErrorDict(text) ==
    Obj(<<"error", "raw_response">>,
        <<Str("Invalid JSON format from AI."), RawText(text)>>)

extract_json(text) ==
    LET whole == json_loads(text) IN
    IF whole.ok THEN whole.v
    ELSE LET match == re_search(text) IN
         IF match.found /\ json_loads(match.group).ok
         THEN json_loads(match.group).v
         ELSE ErrorDict(text)

(***************************************************************************)
(* The JSON text of a value, as a completion that follows the prompts of   *)
(* lines 75-83 spells it (the inverse of json_loads on these values).      *)
(***************************************************************************)
RECURSIVE Dumps(_), DumpElements(_, _), DumpMembers(_, _, _)

Dumps(v) ==
    CASE v.t = "num" -> <<N(v.n)>>
      [] v.t = "str" -> <<S(v.s)>>
      [] v.t = "null" -> <<KwNull>>
      [] v.t = "arr" -> <<P("[")>> \o DumpElements(v.a, 1) \o <<P("]")>>
      [] v.t = "obj" -> <<P("{")>> \o DumpMembers(v.k, v.a, 1) \o <<P("}")>>

DumpElements(elems, i) ==
    IF i > Len(elems) THEN <<>>
    ELSE Dumps(elems[i]) \o (IF i < Len(elems) THEN <<P(",")>> ELSE <<>>)
         \o DumpElements(elems, i + 1)

DumpMembers(keys, vals, i) ==
    IF i > Len(keys) THEN <<>>
    ELSE <<S(keys[i]), P(":")>> \o Dumps(vals[i])
         \o (IF i < Len(keys) THEN <<P(",")>> ELSE <<>>)
         \o DumpMembers(keys, vals, i + 1)

(***************************************************************************)
(* The completions the model draws from.                                   *)
(***************************************************************************)
\* longest income / expenses list a completion enumerates
MaxEntries == 2

ListsUpTo(elems, n) == UNION {[1..m -> elems] : m \in 0..n}

IncomeEntry(source, amount) == Obj(<<"source", "amount">>, <<Str(source), amount>>)

ExpenseEntry(category, amount) == Obj(<<"category", "amount">>, <<Str(category), amount>>)

JobIncome == IncomeEntry("job", Num(5000))

IncomeEntries ==
    {JobIncome, IncomeEntry("gift", Str("n/a")), Obj(<<"source">>, <<Str("tips")>>)}

ExpenseEntries ==
    {ExpenseEntry("rent", Num(1500)), ExpenseEntry("food", Num(300)),
     ExpenseEntry("misc", Str("n/a"))}

\* prose a completion puts before and after an embedded JSON object
Prefixes ==
    {<<>>, <<W("I"), W("earn")>>, <<W("Note"), P("{"), W("draft"), P("}")>>,
     <<P("["), W("sic"), P("]")>>}

Suffixes == {<<>>, <<W("thanks")>>, <<W("ok"), P("}")>>, <<P("]")>>}

Wraps == [pre : Prefixes, obj : {JobIncome}, post : Suffixes]

WrapText(w) == w.pre \o Dumps(w.obj) \o w.post

Gibberish == {<<>>, <<W("sorry")>>, <<P("{"), W("oops")>>}

IncomeTexts ==
    {Dumps(Arr(l)) : l \in ListsUpTo(IncomeEntries, MaxEntries)}
    \cup {WrapText(w) : w \in Wraps}
    \cup {Dumps(Arr(<<IncomeEntry("gig", Num(1000))>>)),
          Dumps(Arr(<<IncomeEntry("gig", None)>>)),
          <<W("Here")>> \o Dumps(Arr(<<JobIncome>>)) \o <<W("done")>>,
          Dumps(Arr(<<Str("error")>>)),
          Dumps(Obj(<<"error">>, <<Str("none")>>)),
          Dumps(Obj(<<>>, <<>>)),
          <<N(5000)>>, <<KwNull>>, <<S("salary")>>}
    \cup Gibberish

ExpensesTexts ==
    {Dumps(Arr(l)) : l \in ListsUpTo(ExpenseEntries, MaxEntries)}
    \cup {Dumps(Arr(<<Obj(<<"category">>, <<Str("fees")>>)>>)),
          Dumps(Arr(<<ExpenseEntry("rent", None)>>)),
          Dumps(ExpenseEntry("rent", Num(1500))),
          Dumps(Obj(<<"error", "items">>, <<None, Arr(<<>>)>>)),
          Dumps(Arr(<<Str("error")>>)),
          Dumps(Arr(<<Num(1500)>>)),
          <<W("Expenses")>> \o Dumps(Arr(<<ExpenseEntry("rent", Num(1500))>>)),
          <<N(1500)>>, <<S("n/a")>>}
    \cup Gibberish

NarrativeTexts == {<<W("save"), W("more")>>}

Branches == {"income", "expenses", "concerns", "advice"}

Completions(b) ==
    CASE b = "income" -> IncomeTexts
      [] b = "expenses" -> ExpensesTexts
      [] OTHER -> NarrativeTexts

\* user inputs: sequences of characters
UserInputs ==
    {<<>>, <<" ">>, <<" ", "\t">>, <<"\n">>, <<"a">>, <<" ", "a", " ">>, <<"a", " ", "b">>}

(***************************************************************************)
(* Python operations of lines 133-141 and 107-119 on the recovered values. *)
(* A computation yields [exc, v]: exc names the exception it raised, ""    *)
(* when it returned v.                                                     *)
(***************************************************************************)
Returns(val) == [exc |-> "", v |-> val]

Raises(exception) == [exc |-> exception, v |-> 0]

\* the str values of the model that have "error" as a substring
StringsWithError == {"error"}

\* "error" in data
contains_error(data) ==
    CASE data.t = "obj" -> Returns(HasKey(data, "error"))
      [] data.t = "arr" -> Returns(\E i \in 1..Len(data.a) : data.a[i] = Str("error"))
      [] data.t = "str" -> Returns(data.s \in StringsWithError)
      [] OTHER -> Raises("TypeError")

\* for item in data: a list yields its elements, a dict its keys, a str its
\* characters (every one a str; the str is kept whole, one item, unless empty)
Items(data) ==
    CASE data.t = "arr" -> Returns(data.a)
      [] data.t = "obj" -> Returns([i \in 1..Len(data.k) |-> Str(data.k[i])])
      [] data.t = "str" -> Returns(IF data.s = "" /\ data.x = <<>> THEN <<>> ELSE <<data>>)
      [] OTHER -> Raises("TypeError")

\* item["amount"]
subscript_amount(item) ==
    IF item.t = "obj"
    THEN IF HasKey(item, "amount") THEN Returns(item.a[KeyIndex(item, "amount")])
         ELSE Raises("KeyError")
    ELSE Raises("TypeError")

\* item.get("amount")
get_amount(item) ==
    IF item.t = "obj"
    THEN IF HasKey(item, "amount") THEN Returns(item.a[KeyIndex(item, "amount")])
         ELSE Returns(None)
    ELSE Raises("AttributeError")

\* isinstance(value, (int, float))
is_number(value) == value.t = "num"

\* sum(item["amount"] for item in income_data), from position i with acc so far
RECURSIVE sum_amounts(_, _, _)

sum_amounts(items, i, acc) ==
    IF i > Len(items) THEN Returns(acc)
    ELSE LET amount == subscript_amount(items[i]) IN
         IF amount.exc # "" THEN amount
         ELSE IF ~is_number(amount.v) THEN Raises("TypeError")
         ELSE sum_amounts(items, i + 1, acc + amount.v.n)

sum_income(data) ==
    LET items == Items(data) IN
    IF items.exc # "" THEN items ELSE sum_amounts(items.v, 1, 0)

\* sum(item["amount"] for item in expenses if isinstance(item.get("amount"), (int, float)))
RECURSIVE sum_numeric_expenses(_, _, _)

sum_numeric_expenses(expenses, i, acc) ==
    IF i > Len(expenses) THEN Returns(acc)
    ELSE LET amount == get_amount(expenses[i]) IN
         IF amount.exc # "" THEN amount
         ELSE sum_numeric_expenses(expenses, i + 1,
                  IF is_number(amount.v) THEN acc + amount.v.n ELSE acc)

max0(number) == IF number > 0 THEN number ELSE 0

\* calculate_savings without the max(0, ...) of line 117
calculate_savings_unfloored(income, expenses) ==
    LET total_expenses == sum_numeric_expenses(expenses, 1, 0) IN
    IF total_expenses.exc # "" THEN total_expenses
    ELSE Returns(income - total_expenses.v)

\* income is the int that sum() returned: the isinstance test of line 111 holds
calculate_savings(income, expenses) ==
    LET total_expenses == sum_numeric_expenses(expenses, 1, 0) IN
    IF total_expenses.exc # "" THEN total_expenses
    ELSE Returns(max0(income - total_expenses.v))

(***************************************************************************)
(* What one invocation of run_budget_pipeline ends with: a budget, an      *)
(* error dict, or an exception leaving the function.                       *)
(***************************************************************************)
NoOutcome ==
    [kind |-> "none", detail |-> "", income |-> 0, expenses |-> <<>>, savings |-> 0,
     concerns |-> <<>>, advice |-> <<>>]

ErrorValue(message) == [NoOutcome EXCEPT !.kind = "error", !.detail = message]

Fault(exception) == [NoOutcome EXCEPT !.kind = "fault", !.detail = exception]

EmptyInput == ErrorValue("Please provide financial details.")

RecoveryFailed == ErrorValue("AI returned invalid financial data.")

\* the returned list of line 140
expenses_list(data) == IF data.t = "arr" THEN data.a ELSE <<>>

\* lines 133-149, on the recovered income and expenses
aggregate(income, expenses, concerns, advice) ==
    LET in_income == contains_error(income)
        in_expenses == contains_error(expenses)
        total_income == sum_income(income)
        total_expenses == expenses_list(expenses)
        recommended_savings == calculate_savings(total_income.v, total_expenses)
    IN  IF in_income.exc # "" THEN Fault(in_income.exc)
        ELSE IF in_income.v THEN RecoveryFailed
        ELSE IF in_expenses.exc # "" THEN Fault(in_expenses.exc)
        ELSE IF in_expenses.v THEN RecoveryFailed
        ELSE IF total_income.exc # "" THEN Fault(total_income.exc)
        ELSE IF recommended_savings.exc # "" THEN Fault(recommended_savings.exc)
        ELSE [kind |-> "result", detail |-> "", income |-> total_income.v,
              expenses |-> total_expenses, savings |-> recommended_savings.v,
              concerns |-> concerns, advice |-> advice]

(***************************************************************************)
(* str.strip() of line 124.                                                *)
(***************************************************************************)
IsSpace(c) == c \in {" ", "\t", "\n"}

RECURSIVE lstrip(_), rstrip(_)

lstrip(str) ==
    IF str # <<>> /\ IsSpace(Head(str)) THEN lstrip(Tail(str)) ELSE str

rstrip(str) ==
    IF str # <<>> /\ IsSpace(str[Len(str)]) THEN rstrip(SubSeq(str, 1, Len(str) - 1))
    ELSE str

\* the test of line 124 without the strip
strip_nothing(str) == str

strip(str) == rstrip(lstrip(str))

(***************************************************************************)
(* The invocation.                                                         *)
(***************************************************************************)
\* max_retries of the ChatGroq client
max_retries == 2

Init ==
    /\ user_input \in UserInputs
    /\ pc = "idle"
    /\ status = [b \in Branches |-> "idle"]
    /\ attempts = [b \in Branches |-> 0]
    /\ requests = [b \in Branches |-> 0]
    /\ content = [b \in Branches |-> <<>>]
    /\ income_data = None
    /\ expenses_data = None
    /\ outcome = NoOutcome

\* lines 124-125
RejectEmpty ==
    /\ pc = "idle"
    /\ strip(user_input) = <<>>
    /\ pc' = "done"
    /\ outcome' = EmptyInput
    /\ UNCHANGED <<user_input, status, attempts, requests, content, income_data,
                   expenses_data>>

\* line 127, RunnableParallel.invoke submitting its four steps
Dispatch ==
    /\ pc = "idle"
    /\ strip(user_input) # <<>>
    /\ pc' = "dispatched"
    /\ status' = [b \in Branches |-> "pending"]
    /\ requests' = [b \in Branches |-> requests[b] + 1]
    /\ UNCHANGED <<user_input, attempts, content, income_data, expenses_data, outcome>>

\* a chain's completion call returns its text; the client's count of failed
\* attempts ends with the call
Complete(b) ==
    /\ pc = "dispatched"
    /\ status[b] = "pending"
    /\ \E text \in Completions(b) : content' = [content EXCEPT ![b] = text]
    /\ status' = [status EXCEPT ![b] = "ok"]
    /\ attempts' = [attempts EXCEPT ![b] = 0]
    /\ UNCHANGED <<user_input, pc, requests, income_data, expenses_data, outcome>>

\* a chain's completion call fails and the client tries again
Retry(b) ==
    /\ pc = "dispatched"
    /\ status[b] = "pending"
    /\ attempts[b] < max_retries
    /\ attempts' = [attempts EXCEPT ![b] = attempts[b] + 1]
    /\ UNCHANGED <<user_input, pc, status, requests, content, income_data,
                   expenses_data, outcome>>

\* a chain's completion call fails with its retries used up: the chain raises
Exhaust(b) ==
    /\ pc = "dispatched"
    /\ status[b] = "pending"
    /\ attempts[b] = max_retries
    /\ status' = [status EXCEPT ![b] = "failed"]
    /\ UNCHANGED <<user_input, pc, attempts, requests, content, income_data,
                   expenses_data, outcome>>

\* a join that goes on at the first branch that ends
AnyDone == \E b \in Branches : status[b] \in {"ok", "failed"}

\* RunnableParallel.invoke leaves its executor once every step has ended
AllDone == \A b \in Branches : status[b] \in {"ok", "failed"}

\* a step raised: invoke raises, and nothing in run_budget_pipeline catches it
JoinRaise ==
    /\ pc = "dispatched"
    /\ AllDone
    /\ \E b \in Branches : status[b] = "failed"
    /\ pc' = "done"
    /\ outcome' = Fault("UpstreamError")
    /\ UNCHANGED <<user_input, status, attempts, requests, content, income_data,
                   expenses_data>>

\* invoke returns the four completions
JoinReturn ==
    /\ pc = "dispatched"
    /\ AllDone
    /\ \A b \in Branches : status[b] = "ok"
    /\ pc' = "collected"
    /\ UNCHANGED <<user_input, status, attempts, requests, content, income_data,
                   expenses_data, outcome>>

\* lines 130-149
Aggregate ==
    /\ pc = "collected"
    /\ income_data' = extract_json(content["income"])
    /\ expenses_data' = extract_json(content["expenses"])
    /\ outcome' = aggregate(extract_json(content["income"]),
                            extract_json(content["expenses"]),
                            content["concerns"], content["advice"])
    /\ pc' = "done"
    /\ UNCHANGED <<user_input, status, attempts, requests, content>>

Next ==
    \/ RejectEmpty
    \/ Dispatch
    \/ \E b \in Branches : Complete(b)
    \/ \E b \in Branches : Retry(b)
    \/ \E b \in Branches : Exhaust(b)
    \/ JoinRaise
    \/ JoinReturn
    \/ Aggregate

Spec == Init /\ [][Next]_vars

(***************************************************************************)
(* Vocabulary of the properties.                                           *)
(***************************************************************************)
\* every branch returned a completion, so the invocation reached line 130
AllReturned == \A b \in Branches : status[b] = "ok"

\* an empty or whitespace-only input
Blank(str) == \A i \in 1..Len(str) : IsSpace(str[i])

\* an entry (a JSON object) whose amount is a number
NumericAmount(entry) ==
    /\ entry.t = "obj"
    /\ \E i \in 1..Len(entry.k) : entry.k[i] = "amount" /\ entry.a[i].t = "num"

AmountOf(entry) == entry.a[CHOOSE i \in 1..Len(entry.k) : entry.k[i] = "amount"].n

\* the sum of the amounts of the entries whose amount is a number
RECURSIVE NumericTotal(_)

NumericTotal(entries) ==
    IF entries = <<>> THEN 0
    ELSE (IF NumericAmount(Head(entries)) THEN AmountOf(Head(entries)) ELSE 0)
         + NumericTotal(Tail(entries))


Floor0(number) == IF number < 0 THEN 0 ELSE number

\* a text that is, as a whole, a well-formed JSON object or array
WellFormed(text) == json_loads(text).ok /\ json_loads(text).v.t \in {"obj", "arr"}

\* a text that yields a JSON object or array: as a whole, or else by its embedded span
Recoverable(text) ==
    IF json_loads(text).ok THEN json_loads(text).v.t \in {"obj", "arr"}
    ELSE /\ re_search(text).found
         /\ json_loads(re_search(text).group).ok
         /\ json_loads(re_search(text).group).v.t \in {"obj", "arr"}

NoBracket(text) ==
    \A i \in 1..Len(text) : text[i] \notin {P("{"), P("}"), P("["), P("]")}

\* one income object in prose that holds no brace or bracket, prose really present
PlainWraps == {w \in Wraps : NoBracket(w.pre) /\ NoBracket(w.post) /\ w.pre \o w.post # <<>>}

\* expense lists whose entries all have a numeric amount
NumericExpenseLists ==
    ListsUpTo({e \in ExpenseEntries : NumericAmount(e)}, MaxEntries)

(***************************************************************************)
(* C1: with the income text an income object {source, amount: a} wrapped   *)
(* in prose and the expenses text a JSON array of entries with numeric     *)
(* amounts, the invocation returns a budget with income a, the expense     *)
(* entries in order and savings max(0, a - their sum).                     *)
(***************************************************************************)
C1_ProseWrappedIncomeObject ==
    \A w \in PlainWraps : \A l \in NumericExpenseLists :
        (/\ pc = "done"
         /\ AllReturned
         /\ content["income"] = WrapText(w)
         /\ content["expenses"] = Dumps(Arr(l)))
        => /\ outcome.kind = "result"
           /\ outcome.income = AmountOf(w.obj)
           /\ outcome.expenses = l
           /\ outcome.savings = Floor0(AmountOf(w.obj) - NumericTotal(l))

(***************************************************************************)
(* C2: when income and expenses both recover as lists of entries, the      *)
(* invocation returns a budget whose income is the sum of the numeric      *)
(* amounts of the income entries; an entry with a missing or non-numeric   *)
(* amount is skipped and raises nothing.                                   *)
(***************************************************************************)
C2_IncomeSkipsNonNumeric ==
    \A l \in ListsUpTo(IncomeEntries, MaxEntries) : \A m \in NumericExpenseLists :
        (/\ pc = "done"
         /\ AllReturned
         /\ content["income"] = Dumps(Arr(l))
         /\ content["expenses"] = Dumps(Arr(m)))
        => /\ outcome.kind = "result"
           /\ outcome.income = NumericTotal(l)

(***************************************************************************)
(* C3: every returned budget has savings = max(0, income - S), S the sum   *)
(* of the numeric amounts of its expense entries; so savings >= 0, and     *)
(* savings = 0 when S exceeds the income.                                  *)
(***************************************************************************)
C3_SavingsFormula ==
    outcome.kind = "result" =>
        /\ outcome.savings = Floor0(outcome.income - NumericTotal(outcome.expenses))
        /\ outcome.savings >= 0
        /\ (NumericTotal(outcome.expenses) > outcome.income => outcome.savings = 0)

\* a budget whose expenses exceed its income and hold an entry with a non-numeric amount
C3_Witness ==
    /\ outcome.kind = "result"
    /\ outcome.income > 0
    /\ NumericTotal(outcome.expenses) > outcome.income
    /\ \E i \in 1..Len(outcome.expenses) : ~NumericAmount(outcome.expenses[i])
    /\ outcome.savings = 0

(***************************************************************************)
(* C4: when the income text or the expenses text yields no JSON object or  *)
(* array (as a whole, or else by its embedded span), the invocation        *)
(* returns the RecoveryFailed error value: no budget, no exception.        *)
(***************************************************************************)
C4_UnrecoverableIsRecoveryFailed ==
    (/\ pc = "done"
     /\ AllReturned
     /\ ~Recoverable(content["income"]) \/ ~Recoverable(content["expenses"]))
    => outcome = RecoveryFailed

(***************************************************************************)
(* C5: a branch whose completion call failed for good does not make the    *)
(* invocation end with an exception.                                       *)
(***************************************************************************)
C5_BranchFailureAbsorbed ==
    (pc = "done" /\ \E b \in Branches : status[b] = "failed")
    => outcome.kind # "fault"

(***************************************************************************)
(* C6: the expenses of every returned budget hold only entries with a      *)
(* numeric amount.                                                         *)
(***************************************************************************)
C6_ReturnedExpensesNumeric ==
    outcome.kind = "result" =>
        \A i \in 1..Len(outcome.expenses) : NumericAmount(outcome.expenses[i])

(***************************************************************************)
(* C7: well-formed income and expenses texts (JSON objects or arrays) are  *)
(* recovered as their parse and are never taken for a failed recovery.     *)
(***************************************************************************)
C7_WellFormedIsOk ==
    (/\ pc = "done"
     /\ AllReturned
     /\ WellFormed(content["income"])
     /\ WellFormed(content["expenses"]))
    => /\ income_data = json_loads(content["income"]).v
       /\ expenses_data = json_loads(content["expenses"]).v
       /\ outcome # RecoveryFailed

(***************************************************************************)
(* C8: from a text that is one JSON object in prose, whatever braces and   *)
(* brackets the prose holds, extract_json returns the embedded object.     *)
(***************************************************************************)
C8_EmbeddedObjectRecovered ==
    \A w \in Wraps :
        (pc = "done" /\ AllReturned /\ content["income"] = WrapText(w))
        => income_data = w.obj

(***************************************************************************)
(* C9: with an empty or whitespace-only input the invocation returns the   *)
(* EmptyInput error and never dispatches a completion request.             *)
(***************************************************************************)
C9_BlankInputRejected ==
    Blank(user_input) =>
        /\ \A b \in Branches : requests[b] = 0 /\ status[b] = "idle" /\ attempts[b] = 0
        /\ pc \in {"idle", "done"}
        /\ pc = "done" => outcome = EmptyInput

\* a whitespace-only, non-empty input was rejected
C9_Witness ==
    /\ user_input = <<" ", "\t">>
    /\ pc = "done"
    /\ outcome = EmptyInput
    /\ \A b \in Branches : requests[b] = 0

(***************************************************************************)
(* C10 as stated: every non-empty input gets its four completion requests. *)
(***************************************************************************)
C10_NonEmptyDispatchesFour ==
    (Len(user_input) > 0 /\ pc = "done") => \A b \in Branches : requests[b] = 1

(***************************************************************************)
(* C10, amended: for every input that is not empty or whitespace-only,     *)
(* the invocation dispatches exactly one request per branch; it goes on    *)
(* (to recovery and aggregation, or to its end) only once all four         *)
(* branches have completed or failed, and recovery and aggregation run     *)
(* only on four completed branches; no branch is left pending or skipped.  *)
(***************************************************************************)
C10_JoinAll ==
    ~Blank(user_input) =>
        /\ pc # "idle" => \A b \in Branches : requests[b] = 1
        /\ pc \in {"collected", "done"} =>
               \A b \in Branches : status[b] \in {"ok", "failed"}
        /\ (outcome.kind \in {"result", "error"} \/ income_data # None
            \/ expenses_data # None) => AllReturned

\* one branch failed for good after the others completed, and the join saw all four
C10_Witness ==
    /\ ~Blank(user_input)
    /\ pc = "done"
    /\ status["concerns"] = "failed"
    /\ attempts["concerns"] = max_retries
    /\ \A b \in Branches \ {"concerns"} : status[b] = "ok" /\ content[b] # <<>>
    /\ \A b \in Branches : requests[b] = 1

====
